---- MODULE Spec2Model ----
(***************************************************************************)
(* CV Bank (src/cvbank.py): a Streamlit page over one shared Firestore     *)
(* collection.  The model has the collection (store), the per-browser      *)
(* st.session_state of every session, and the last request handled with    *)
(* the message it emitted.                                                 *)
(*   Spec        one viewer using the page on a collection that starts     *)
(*               empty: create form, edit form, listing.                   *)
(*   SpecOwnRecord  the same viewer publishing one CV and then editing it. *)
(*   SpecRace    two viewers editing a record that was already stored.     *)
(*   SpecGateway save_profile called with arbitrary arguments.             *)
(***************************************************************************)
EXTENDS Integers, Sequences, FiniteSets, TLC

VARIABLES store, edit_mode, profile_to_edit, additional_info_list,
          current_edit_profile_id, last

vars == <<store, edit_mode, profile_to_edit, additional_info_list,
          current_edit_profile_id, last>>

session_vars == <<edit_mode, profile_to_edit, additional_info_list,
                  current_edit_profile_id>>

-----------------------------------------------------------------------------
(* Bounds *)

\* Documents the store can be asked to create in one run.
MaxDocs == 1
\* Slots of the additional_info list of a form.
MaxSlots == 2

\* Identifiers the store assigns to new documents.
DocIds == 1..MaxDocs

\* Python None: an absent doc_id, an unset current_edit_profile_id.
NoId == 0

\* Identifier of a document that was in the collection before the run.
OldId == MaxDocs + 1

Sessions == {"s1", "s2"}

-----------------------------------------------------------------------------
(* Identities and option lists of main() *)

user_id == "admin_456"
admin_id == "admin_456"
is_admin == (user_id = admin_id)

\* An identity other than the placeholder, as found on records of the shared
\* collection that this page's user does not own.
OtherUser == "user_123"

ScalarFields == {"name", "contact", "summary", "experience_text", "education", "skills"}
CategoricalFields == {"experience", "profession", "expertise"}
FormFields == ScalarFields \cup CategoricalFields

-----------------------------------------------------------------------------
(* Text values and str.strip() *)

Texts == {"", " ", " x", "y"}

\* str.strip(): the text without leading and trailing whitespace.
Strip(t) == CASE t = " " -> ""
              [] t = " x" -> "x"
              [] OTHER -> t

\* Python truthiness of a str.
Truthy(t) == t # ""

-----------------------------------------------------------------------------
(* Dictionaries *)

\* The elements of a list.
Range(seq) == {seq[i] : i \in 1..Len(seq)}

\* dict.get(key, default)
Get(d, key, default) == IF key \in DOMAIN d THEN d[key] ELSE default

\* st.session_state.profile_to_edit = {}
EmptyProfile == [k \in {} |-> ""]

\* The widgets of the form: six text inputs and three multiselects.
BlankForm == [name |-> "", contact |-> "", summary |-> "",
              experience |-> <<>>, profession |-> <<>>, expertise |-> <<>>,
              experience_text |-> "", education |-> "", skills |-> ""]

-----------------------------------------------------------------------------
(* Form inputs *)

\* The forms a user submits: nothing typed; only categorical values selected;
\* one text field typed; a text field and a categorical value.
FormInputs ==
  { BlankForm,
    [BlankForm EXCEPT !.profession = <<"IT", "Finance">>, !.experience = <<"5 Years">>],
    [BlankForm EXCEPT !.skills = "SQL", !.profession = <<"IT">>] }

\* The values of the "Info i" text inputs delivered with a form submit: the
\* values shown, with at most one slot retyped since the last script run.
SlotInputs(list) ==
  {list} \cup {[list EXCEPT ![i] = t] : i \in 1..Len(list), t \in Texts}

-----------------------------------------------------------------------------
(* Profile Store Gateway *)

\* Faulty variant: fields the document already has are kept.
DocUpdate_KeepExisting(doc, data) ==
  [f \in (DOMAIN doc) \cup (DOMAIN data) |-> IF f \in DOMAIN doc THEN doc[f] ELSE data[f]]

\* Firestore DocumentReference.update(data): the fields of data overwrite the
\* document's, the document's other fields stay.
DocUpdate(doc, data) ==
  [f \in (DOMAIN doc) \cup (DOMAIN data) |-> IF f \in DOMAIN data THEN data[f] ELSE doc[f]]

\* Faulty variant: an owner value already in the data is kept.
StampOwner_SetDefault(profile_data, uid) ==
  [f \in (DOMAIN profile_data) \cup {"user_id"} |->
     IF f \in DOMAIN profile_data THEN profile_data[f] ELSE uid]

\* Faulty variant: the owner is not stamped.
StampOwner_Skipped(profile_data, uid) == profile_data

\* profile_data["user_id"] = user_id
StampOwner(profile_data, uid) ==
  [f \in (DOMAIN profile_data) \cup {"user_id"} |->
     IF f = "user_id" THEN uid ELSE profile_data[f]]

\* Firestore CollectionReference.add(data): a new document under an
\* identifier the store picks.
CollectionAdd(st, new_id, data) ==
  [d \in (DOMAIN st) \cup {new_id} |-> IF d = new_id THEN data ELSE st[d]]

\* Firestore update() of an existing document.
DocumentUpdate(st, doc_id, data) ==
  [st EXCEPT ![doc_id] = DocUpdate(@, data)]

ErrNoDb == "Database not connected. Cannot save profile."
ErrSave == "An error occurred while saving the profile"
OkUpdated == "CV updated successfully!"
OkPublished == "CV published successfully!"

\* Faulty variant: update() of a missing document creates it.
save_profile_UpsertsMissing(st, db_client, profile_data, uid, doc_id, raises, new_id) ==
  IF ~db_client
  THEN [store |-> st, wrote |-> FALSE, msg |-> ErrNoDb]
  ELSE LET data == StampOwner(profile_data, uid)
       IN  IF raises \/ (doc_id = NoId /\ new_id = NoId)
           THEN [store |-> st, wrote |-> FALSE, msg |-> ErrSave]
           ELSE IF doc_id # NoId
                THEN [store |-> IF doc_id \in DOMAIN st
                                THEN DocumentUpdate(st, doc_id, data)
                                ELSE CollectionAdd(st, doc_id, data),
                      wrote |-> TRUE, msg |-> OkUpdated]
                ELSE [store |-> CollectionAdd(st, new_id, data), wrote |-> TRUE,
                      msg |-> OkPublished]

\* save_profile(db_client, profile_data, user_id, doc_id): the collection
\* afterwards and the message shown.  raises: the store call raises (network,
\* permission, or no identifier left for add()); update() of a missing
\* document always raises NotFound.
save_profile(st, db_client, profile_data, uid, doc_id, raises, new_id) ==
  IF ~db_client
  THEN [store |-> st, wrote |-> FALSE, msg |-> ErrNoDb]
  ELSE LET data == StampOwner(profile_data, uid)
       IN  IF \/ raises
              \/ (doc_id # NoId /\ doc_id \notin DOMAIN st)
              \/ (doc_id = NoId /\ new_id = NoId)
           THEN [store |-> st, wrote |-> FALSE, msg |-> ErrSave]
           ELSE IF doc_id # NoId
                THEN [store |-> DocumentUpdate(st, doc_id, data), wrote |-> TRUE,
                      msg |-> OkUpdated]
                ELSE [store |-> CollectionAdd(st, new_id, data), wrote |-> TRUE,
                      msg |-> OkPublished]

\* load_profiles(db_client): every document with its identifier attached
\* ({"id": doc.id, **doc.to_dict()}), here in identifier order.
RECURSIVE ProfilesFrom(_, _)
ProfilesFrom(st, ids) ==
  IF ids = {} THEN <<>>
  ELSE LET d == CHOOSE x \in ids : \A y \in ids : x <= y
       IN  <<st[d] @@ ("id" :> d)>> \o ProfilesFrom(st, ids \ {d})

load_profiles(st) == ProfilesFrom(st, DOMAIN st)

-----------------------------------------------------------------------------
(* Presentation layer: submission *)

\* Faulty variant: the kept items are stored stripped.
cleaned_StoresStripped(list) ==
  LET kept == SelectSeq(list, LAMBDA item : Truthy(Strip(item)))
  IN  [i \in 1..Len(kept) |-> Strip(kept[i])]

\* [item for item in st.session_state.additional_info_list if item.strip()]
cleaned_additional_info(list) == SelectSeq(list, LAMBDA item : Truthy(Strip(item)))

\* Faulty variant: a categorical selection counts as a filled field.
NothingFilled_CountsCategorical(form, cleaned) ==
  /\ ~(\E f \in ScalarFields : Truthy(form[f]))
  /\ ~(\E f \in CategoricalFields : form[f] # <<>>)
  /\ cleaned = <<>>

\* not any([name, contact, summary, experience_text, education, skills])
\*   and not cleaned_additional_info
NothingFilled(form, cleaned) ==
  /\ ~(\E f \in ScalarFields : Truthy(form[f]))
  /\ cleaned = <<>>

\* The profile_data dictionary of both forms.
ProfileData(form, cleaned) ==
  [name |-> form.name, contact |-> form.contact, summary |-> form.summary,
   experience |-> form.experience, profession |-> form.profession,
   expertise |-> form.expertise, experience_text |-> form.experience_text,
   education |-> form.education, skills |-> form.skills,
   additional_info |-> cleaned]

\* The value=/default= arguments of the edit form's widgets.
EditFormDefaults(profile) ==
  [name |-> Get(profile, "name", ""), contact |-> Get(profile, "contact", ""),
   summary |-> Get(profile, "summary", ""),
   experience |-> Get(profile, "experience", <<>>),
   profession |-> Get(profile, "profession", <<>>),
   expertise |-> Get(profile, "expertise", <<>>),
   experience_text |-> Get(profile, "experience_text", ""),
   education |-> Get(profile, "education", ""), skills |-> Get(profile, "skills", "")]

\* The request handled last: its inputs, the document it addressed, whether
\* the store was written, the st.warning / st.success / st.error emitted, the
\* addressed document as stored before the request and the profile the form
\* was filled from.
Handled(op, s, form, slots, uid, doc_id_arg, doc_id, wrote, msg, before, shown) ==
  [op |-> op, s |-> s, form |-> form, slots |-> slots, user_id |-> uid,
   doc_id_arg |-> doc_id_arg, doc_id |-> doc_id, wrote |-> wrote, msg |-> msg,
   before |-> before, shown |-> shown]

\* dict.get on the collection: the document, or {} when there is none.
Stored(st, doc_id) == IF doc_id \in DOMAIN st THEN st[doc_id] ELSE EmptyProfile

WarnPublish == "Please fill out at least one field to publish your CV."
WarnUpdate == "Please fill out at least one field to update your CV."

-----------------------------------------------------------------------------
(* Initial states *)

\* A record of the shared collection owned by another identity.
ForeignDoc ==
  [name |-> "Bea", contact |-> "", summary |-> "", experience |-> <<>>,
   profession |-> <<"HR">>, expertise |-> <<>>, experience_text |-> "",
   education |-> "", skills |-> "", additional_info |-> <<"y">>, user_id |-> OtherUser]

\* An older record: no categorical fields, no additional_info.
LegacyDoc == [name |-> "Old", contact |-> "old@cv", user_id |-> user_id]

EmptyStore == [d \in {} |-> EmptyProfile]

\* Collections with one record stored before the run.
StoredBefore == {[d \in {OldId} |-> ForeignDoc], [d \in {OldId} |-> LegacyDoc]}

InitSessions ==
  /\ edit_mode = [s \in Sessions |-> FALSE]
  /\ profile_to_edit = [s \in Sessions |-> EmptyProfile]
  /\ additional_info_list = [s \in Sessions |-> <<"">>]
  /\ current_edit_profile_id = [s \in Sessions |-> NoId]
  /\ last = Handled("start", "s1", BlankForm, <<>>, user_id, NoId, NoId, FALSE, "", EmptyProfile, EmptyProfile)

Init ==
  /\ store = EmptyStore
  /\ InitSessions

-----------------------------------------------------------------------------
(* Presentation layer: the handlers of main(), one script run each *)

\* "Add another information block" of the create form.
AddBlockCreate(s, vals) ==
  /\ ~edit_mode[s]
  /\ Len(additional_info_list[s]) < MaxSlots
  /\ additional_info_list' = [additional_info_list EXCEPT ![s] = Append(vals, "")]
  /\ last' = Handled("add_create", s, BlankForm, vals, user_id, NoId, NoId, FALSE, "", EmptyProfile, EmptyProfile)
  /\ UNCHANGED <<store, edit_mode, profile_to_edit, current_edit_profile_id>>

\* "Publish CV".
PublishCV(s, form, vals, raises, new_id) ==
  /\ ~edit_mode[s]
  /\ LET cleaned == cleaned_additional_info(vals)
     IN  IF NothingFilled(form, cleaned)
         THEN /\ ~raises
              /\ additional_info_list' = [additional_info_list EXCEPT ![s] = vals]
              /\ last' = Handled("publish", s, form, vals, user_id, NoId, NoId, FALSE,
                                 WarnPublish, EmptyProfile, EmptyProfile)
              /\ UNCHANGED store
         ELSE LET r == save_profile(store, TRUE, ProfileData(form, cleaned), user_id,
                                    NoId, raises, new_id)
              IN  /\ store' = r.store
                  /\ additional_info_list' = [additional_info_list EXCEPT ![s] = <<"">>]
                  /\ last' = Handled("publish", s, form, vals, user_id, NoId,
                                     IF r.wrote THEN new_id ELSE NoId, r.wrote, r.msg,
                                     EmptyProfile, EmptyProfile)
  /\ UNCHANGED <<edit_mode, profile_to_edit, current_edit_profile_id>>

\* "Edit Profile" of display_profile, then the rerun that renders the edit form.
EditProfile(s, d) ==
  /\ d \in DOMAIN store
  /\ LET profile == store[d] @@ ("id" :> d)
         is_owner == Get(profile, "user_id", "") = user_id
     IN  /\ is_owner \/ is_admin
         /\ edit_mode' = [edit_mode EXCEPT ![s] = TRUE]
         /\ profile_to_edit' = [profile_to_edit EXCEPT ![s] = profile]
         /\ additional_info_list' =
              IF Get(profile, "id", NoId) # current_edit_profile_id[s]
              THEN [additional_info_list EXCEPT ![s] = Get(profile, "additional_info", <<"">>)]
              ELSE additional_info_list
         /\ current_edit_profile_id' =
              [current_edit_profile_id EXCEPT ![s] = Get(profile, "id", NoId)]
         /\ last' = Handled("edit", s, BlankForm, <<>>, user_id, NoId, d, FALSE, "",
                            store[d], profile)
  /\ UNCHANGED store

\* "Add another information block" of the edit form.
AddBlockEdit(s, vals) ==
  /\ edit_mode[s]
  /\ Len(additional_info_list[s]) < MaxSlots
  /\ additional_info_list' = [additional_info_list EXCEPT ![s] = Append(vals, "")]
  /\ last' = Handled("add_edit", s, BlankForm, vals, user_id, NoId, NoId, FALSE, "", EmptyProfile, EmptyProfile)
  /\ UNCHANGED <<store, edit_mode, profile_to_edit, current_edit_profile_id>>

\* "Update CV".
UpdateCV(s, form, vals, raises) ==
  /\ edit_mode[s]
  /\ LET profile == profile_to_edit[s]
         cleaned == cleaned_additional_info(vals)
     IN  IF NothingFilled(form, cleaned)
         THEN /\ ~raises
              /\ additional_info_list' = [additional_info_list EXCEPT ![s] = vals]
              /\ last' = Handled("update", s, form, vals, user_id, profile["id"],
                                 profile["id"], FALSE, WarnUpdate,
                                 Stored(store, profile["id"]), profile)
              /\ UNCHANGED <<store, edit_mode, profile_to_edit>>
         ELSE LET r == save_profile(store, TRUE, ProfileData(form, cleaned), user_id,
                                    profile["id"], raises, NoId)
              IN  /\ store' = r.store
                  /\ edit_mode' = [edit_mode EXCEPT ![s] = FALSE]
                  /\ profile_to_edit' = [profile_to_edit EXCEPT ![s] = EmptyProfile]
                  /\ additional_info_list' = [additional_info_list EXCEPT ![s] = <<"">>]
                  /\ last' = Handled("update", s, form, vals, user_id, profile["id"],
                                     profile["id"], r.wrote, r.msg,
                                     Stored(store, profile["id"]), profile)
  /\ UNCHANGED current_edit_profile_id

\* "Cancel Edit".
CancelEdit(s) ==
  /\ edit_mode[s]
  /\ edit_mode' = [edit_mode EXCEPT ![s] = FALSE]
  /\ profile_to_edit' = [profile_to_edit EXCEPT ![s] = EmptyProfile]
  /\ additional_info_list' = [additional_info_list EXCEPT ![s] = <<"">>]
  /\ last' = Handled("cancel", s, BlankForm, <<>>, user_id, NoId, NoId, FALSE, "", EmptyProfile, EmptyProfile)
  /\ UNCHANGED <<store, current_edit_profile_id>>

\* The identifier add() assigns, or none when the store has none left.
NewIds(st) ==
  IF DocIds \ DOMAIN st = {} THEN {NoId}
  ELSE {CHOOSE d \in DocIds \ DOMAIN st : \A e \in DocIds \ DOMAIN st : d <= e}

Viewer == {"s1"}

\* The handlers of the page other than "Publish CV".
PageStep(s) ==
  \/ \E vals \in SlotInputs(additional_info_list[s]) : AddBlockCreate(s, vals)
  \/ \E d \in DOMAIN store : EditProfile(s, d)
  \/ \E vals \in SlotInputs(additional_info_list[s]) : AddBlockEdit(s, vals)
  \/ \E form \in FormInputs \cup {EditFormDefaults(profile_to_edit[s])},
        vals \in SlotInputs(additional_info_list[s]), raises \in BOOLEAN :
          UpdateCV(s, form, vals, raises)
  \/ CancelEdit(s)

PublishStep(s) ==
  \E form \in FormInputs, vals \in SlotInputs(additional_info_list[s]),
     raises \in BOOLEAN, new_id \in NewIds(store) :
       PublishCV(s, form, vals, raises, new_id)

Next == \E s \in Viewer : PageStep(s) \/ PublishStep(s)

Spec == Init /\ [][Next]_vars

\* The viewer publishes one CV and from then on edits it: "Publish CV" is
\* submitted only while the collection is empty.
NextOwnRecord == \E s \in Viewer : PageStep(s) \/ (store = EmptyStore /\ PublishStep(s))

SpecOwnRecord == Init /\ [][NextOwnRecord]_vars

-----------------------------------------------------------------------------
(* Two viewers editing a record stored before the run *)

\* The edit form as shown, with one text field retyped or left as it is.
RaceForms(profile) ==
  LET shown == EditFormDefaults(profile)
  IN  {shown, [shown EXCEPT !.name = "Ann"], [shown EXCEPT !.summary = "Lead"]}

InitRace ==
  /\ store \in StoredBefore
  /\ InitSessions

NextRace ==
  \E s \in Sessions :
    \/ \E d \in DOMAIN store : EditProfile(s, d)
    \/ \E form \in RaceForms(profile_to_edit[s]), raises \in BOOLEAN :
          UpdateCV(s, form, additional_info_list[s], raises)
    \/ CancelEdit(s)

SpecRace == InitRace /\ [][NextRace]_vars

-----------------------------------------------------------------------------
(* save_profile called directly *)

\* profile_data arguments: what the forms build, with or without an owner
\* value set by the caller.
GatewayProfiles ==
  LET built == {ProfileData(form, <<>>) : form \in FormInputs \ {BlankForm}}
  IN  built \cup {[f \in (DOMAIN pd) \cup {"user_id"} |->
                     IF f = "user_id" THEN "mallory" ELSE pd[f]] : pd \in built}

SaveCall(db_client, profile_data, uid, doc_id, raises, new_id) ==
  LET r == save_profile(store, db_client, profile_data, uid, doc_id, raises, new_id)
  IN  /\ store' = r.store
      /\ last' = Handled("save_profile", "s1", profile_data, <<>>, uid, doc_id,
                         IF ~r.wrote THEN NoId ELSE IF doc_id # NoId THEN doc_id ELSE new_id,
                         r.wrote, r.msg, Stored(store, doc_id), EmptyProfile)
      /\ UNCHANGED session_vars

InitGateway ==
  /\ store \in StoredBefore \cup {EmptyStore}
  /\ InitSessions

NextGateway ==
  \E db_client \in BOOLEAN, profile_data \in GatewayProfiles, uid \in {user_id, OtherUser},
     doc_id \in {NoId, OldId} \cup DocIds, raises \in BOOLEAN, new_id \in NewIds(store) :
       SaveCall(db_client, profile_data, uid, doc_id, raises, new_id)

SpecGateway == InitGateway /\ [][NextGateway]_vars

-----------------------------------------------------------------------------
(* Presentation layer: listing *)

GroupByOptions == {"None", "Experience", "Profession", "Expertise"}

\* group_by_option.lower()
Lower(option) == CASE option = "Experience" -> "experience"
                   [] option = "Profession" -> "profession"
                   [] option = "Expertise" -> "expertise"
                   [] OTHER -> "none"

\* for key in group_key: grouped_profiles[key].append(profile)
RECURSIVE AppendUnderKeys(_, _, _)
AppendUnderKeys(grouped, profile, keys) ==
  IF keys = <<>> THEN grouped
  ELSE LET key == Head(keys)
           next == IF key \in DOMAIN grouped
                   THEN [grouped EXCEPT ![key] = Append(@, profile)]
                   ELSE grouped @@ (key :> <<profile>>)
       IN  AppendUnderKeys(next, profile, Tail(keys))

\* Faulty variant: only the first value of the field is a group key.
GroupKey_FirstOnly(profile, field) ==
  LET keys == Get(profile, field, <<"Not specified">>)
  IN  IF keys = <<>> THEN <<>> ELSE <<Head(keys)>>

\* group_key = profile.get(group_by_option.lower(), ["Not specified"])
GroupKey(profile, field) == Get(profile, field, <<"Not specified">>)

RECURSIVE GroupInto(_, _, _)
GroupInto(grouped, profiles, field) ==
  IF profiles = <<>> THEN grouped
  ELSE GroupInto(AppendUnderKeys(grouped, Head(profiles), GroupKey(Head(profiles), field)),
                 Tail(profiles), field)

\* grouped_profiles of the listing: group name -> the profiles shown under it.
grouped_profiles(all_profiles, option) ==
  GroupInto([k \in {} |-> <<>>], all_profiles, Lower(option))

\* The number in "Group: {group_name} ({len(profiles_in_group)})".
GroupCount(grouped, group_name) == Len(grouped[group_name])

\* How many display_profile calls a group makes for one profile.
ShownIn(group, profile) ==
  Cardinality({i \in 1..Len(group) : group[i]["id"] = profile["id"]})

-----------------------------------------------------------------------------
(* Properties *)

\* An entry that is empty or whitespace only.
Blank(t) == Strip(t) = ""

\* A list without its blank entries, the others in order and as they were.
RECURSIVE WithoutBlanks(_)
WithoutBlanks(list) ==
  IF list = <<>> THEN <<>>
  ELSE IF Blank(Head(list)) THEN WithoutBlanks(Tail(list))
       ELSE <<Head(list)>> \o WithoutBlanks(Tail(list))

IsSubmission(req) == req.op \in {"publish", "update"}

\* All six text fields empty and no slot non-blank.
EmptySubmission(req) ==
  /\ IsSubmission(req)
  /\ \A f \in ScalarFields : req.form[f] = ""
  /\ \A i \in 1..Len(req.slots) : Blank(req.slots[i])

\* C1: a "Publish CV" or "Update CV" submission with all six text fields empty
\* and no non-blank additional_info slot writes nothing to the store and shows
\* the warning, whatever categorical values are selected.
C1_EmptySubmissionRejected ==
  [][EmptySubmission(last') =>
       /\ store' = store
       /\ ~last'.wrote
       /\ last'.msg = (IF last'.op = "publish" THEN WarnPublish ELSE WarnUpdate)]_vars

C1_Witness ==
  /\ EmptySubmission(last)
  /\ last.op = "update"
  /\ last.form.profession # <<>>
  /\ \E i \in 1..Len(last.slots) : last.slots[i] = " "
  /\ last.msg = WarnUpdate

\* C2: after every save_profile call that wrote, creating or updating, the
\* stored document's user_id is the acting user's id passed to the call,
\* whatever user_id the profile data carried or the document held.
C2_OwnerIsActingUser ==
  (last.op = "save_profile" /\ last.wrote) =>
     /\ last.doc_id \in DOMAIN store
     /\ "user_id" \in DOMAIN store[last.doc_id]
     /\ store[last.doc_id]["user_id"] = last.user_id

C2_Witness ==
  /\ last.op = "save_profile" /\ last.wrote
  /\ last.doc_id_arg # NoId
  /\ "user_id" \in DOMAIN last.form /\ last.form["user_id"] # last.user_id
  /\ last.before["user_id"] # last.user_id

\* The profiles of the listing that hold no value for a categorical field.
HoldsNoValue(profile, field) == field \notin DOMAIN profile \/ profile[field] = <<>>

\* C3: grouped by a categorical field, every stored profile holding no value
\* for it (the field absent, or the empty list the create form writes) is
\* shown once under "Not specified" and under no other group.
C3_UnspecifiedBucket ==
  \A option \in GroupByOptions \ {"None"} :
    LET all_profiles == load_profiles(store)
        grouped == grouped_profiles(all_profiles, option)
    IN  \A profile \in Range(all_profiles) :
          HoldsNoValue(profile, Lower(option)) =>
            /\ "Not specified" \in DOMAIN grouped
            /\ ShownIn(grouped["Not specified"], profile) = 1
            /\ \A k \in DOMAIN grouped \ {"Not specified"} : ShownIn(grouped[k], profile) = 0

\* The values a profile holds for a categorical field.
ValuesHeld(profile, field) == IF field \in DOMAIN profile THEN Range(profile[field]) ELSE {}

\* C4: grouped by a categorical field, a profile holding the values V is shown
\* once in the group of each value of V and in no group of another value, and
\* the count of each group is the number of profiles holding its value;
\* ungrouped, every loaded profile is one list entry.
C4_GroupingCorrect ==
  LET all_profiles == load_profiles(store)
  IN  /\ \A profile \in Range(all_profiles) : ShownIn(all_profiles, profile) = 1
      /\ \A option \in GroupByOptions \ {"None"} :
           LET grouped == grouped_profiles(all_profiles, option)
               field == Lower(option)
           IN  /\ \A profile \in Range(all_profiles) :
                    /\ ValuesHeld(profile, field) \subseteq DOMAIN grouped
                    /\ \A k \in DOMAIN grouped \ {"Not specified"} :
                         ShownIn(grouped[k], profile) =
                           (IF k \in ValuesHeld(profile, field) THEN 1 ELSE 0)
               /\ \A k \in DOMAIN grouped \ {"Not specified"} :
                    GroupCount(grouped, k) =
                      Cardinality({d \in DOMAIN store : k \in ValuesHeld(store[d], field)})

C4_Witness ==
  LET grouped == grouped_profiles(load_profiles(store), "Profession")
  IN  /\ {"IT", "Finance"} \subseteq DOMAIN grouped
      /\ GroupCount(grouped, "IT") = 2
      /\ GroupCount(grouped, "Finance") = 1

\* C5: for every accepted submission that wrote, the additional_info of the
\* written document as load_profiles returns it is the submitted slot list
\* without its blank entries, the others in order and unchanged; no document
\* the page wrote holds a blank additional_info entry.
C5_AdditionalInfoRoundTrip ==
  /\ (IsSubmission(last) /\ last.wrote) =>
        \E profile \in Range(load_profiles(store)) :
          /\ profile["id"] = last.doc_id
          /\ profile["additional_info"] = WithoutBlanks(last.slots)
  /\ \A profile \in Range(load_profiles(store)) :
        \A i \in 1..Len(profile["additional_info"]) : ~Blank(profile["additional_info"][i])

C5_Witness ==
  /\ IsSubmission(last) /\ last.wrote
  /\ last.slots = <<" ", " x">>
  /\ store[last.doc_id]["additional_info"] = <<" x">>

\* The form and its slots hold exactly what the document stores.
SameAsStored(req) ==
  /\ \A f \in FormFields : f \in DOMAIN req.before /\ req.before[f] = req.form[f]
  /\ "additional_info" \in DOMAIN req.before
  /\ req.before["additional_info"] = req.slots

\* C6 as stated: an update with field values identical to those stored leaves
\* the stored document equal, field for field, to the document before.
C6_UpdateIdempotent ==
  (last.op = "update" /\ last.wrote /\ SameAsStored(last)) =>
     store[last.doc_id] = last.before

\* C6 amended: such an update leaves every field of the stored document as it
\* was except user_id, which becomes the acting user's id.
C6_UpdateIdempotentButOwner ==
  (last.op = "update" /\ last.wrote /\ SameAsStored(last)) =>
     /\ DOMAIN store[last.doc_id] = (DOMAIN last.before) \cup {"user_id"}
     /\ \A f \in (DOMAIN last.before) \ {"user_id"} : store[last.doc_id][f] = last.before[f]
     /\ store[last.doc_id]["user_id"] = last.user_id

C6_Witness ==
  /\ last.op = "update" /\ last.wrote /\ SameAsStored(last)
  /\ last.before["user_id"] = OtherUser
  /\ store[last.doc_id]["user_id"] = user_id

\* C7: whenever a session enters Editing, the edit form shows the selected
\* record: every text and categorical field its stored value, the
\* additional_info slots exactly its stored additional_info entries.
C7_EditFormShowsRecord ==
  [][\A s \in Sessions :
       (~edit_mode[s] /\ edit_mode'[s]) =>
          LET record == store'[profile_to_edit'[s]["id"]]
          IN  /\ \A f \in FormFields : EditFormDefaults(profile_to_edit'[s])[f] = record[f]
              /\ additional_info_list'[s] = record["additional_info"]]_vars

\* C8: a save with an existing identifier changes only that document: the set
\* of identifiers and every other document stay; the set of identifiers never
\* shrinks and grows only by a save without an identifier.
C8_UpdateFrame ==
  [][/\ (DOMAIN store) \subseteq (DOMAIN store')
     /\ (DOMAIN store' # DOMAIN store) => (last'.doc_id_arg = NoId /\ last'.wrote)
     /\ (last'.doc_id_arg # NoId) =>
           /\ DOMAIN store' = DOMAIN store
           /\ \A d \in (DOMAIN store) \ {last'.doc_id_arg} : store'[d] = store[d]]_vars

C8_Witness ==
  /\ last.op = "save_profile" /\ last.wrote
  /\ last.doc_id_arg # NoId
  /\ store[last.doc_id] # last.before
  /\ Cardinality(DOMAIN store) = 2

\* C9: an update submission whose store write failed, like one rejected by
\* validation, leaves the session in Editing with the same selected record.
C9_FailedUpdateStaysEditing ==
  (last.op = "update" /\ ~last.wrote) =>
     /\ edit_mode[last.s]
     /\ Get(profile_to_edit[last.s], "id", NoId) = last.doc_id

\* C10: an accepted update whose store call did not raise is never refused or
\* warned, however stale the editor's snapshot, and the stored document then
\* holds the submission's form data in every field.
C10_LastWriteWins ==
  (last.op = "update" /\ ~EmptySubmission(last) /\ last.msg # ErrSave) =>
     /\ last.wrote /\ last.msg = OkUpdated
     /\ \A f \in FormFields : store[last.doc_id][f] = last.form[f]
     /\ store[last.doc_id]["additional_info"] = WithoutBlanks(last.slots)

C10_Witness ==
  /\ last.op = "update" /\ last.wrote
  /\ last.before["name"] = "Ann" /\ last.shown["name"] # "Ann"
  /\ last.form.name = last.shown["name"] /\ last.form.summary = "Lead"
  /\ store[last.doc_id]["name"] = last.form.name
  /\ \E s \in Sessions : s # last.s /\ current_edit_profile_id[s] = last.doc_id

====
